---- MODULE Spec2Model ----
(***************************************************************************)
(* A model of whisper-speed-test: the benchmark harness (ASRBenchmark in   *)
(* benchmark_module.py), its error-rate helpers (calculate_wer /           *)
(* calculate_cer, thin wrappers of jiwer) and the audio acquisition        *)
(* adapter (download_audio in uploading_video.py).                         *)
(*                                                                         *)
(* Text is a sequence of one-character strings.  Python's None is the      *)
(* record None; Some(x) wraps a present value.                             *)
(***************************************************************************)
EXTENDS Integers, Sequences, FiniteSets, TLC

VARIABLES
    reference_text,   \* ASRBenchmark.reference_text (Optional[str])
    results,          \* ASRBenchmark.results (List[BenchmarkResult])
    returned,         \* history: <<model_name, adapter result>> of every call that returned
    h_out,            \* what the last harness call did, as its caller observes it
    m_ref, m_hyp,     \* arguments of calculate_wer / calculate_cer
    m_out,            \* what calculate_wer / calculate_cer did with them
    ffmpeg,           \* shutil.which("ffmpeg") is not None
    out_dir,          \* what is at the out_dir path: "absent", "dir" or "blocked"
    files,            \* the files in out_dir: name -> st_mtime (0: no such file)
    ydl_calls,        \* how often YoutubeDL was invoked
    dl_calls,         \* how often download_audio was called
    d_out             \* what the last download_audio call did

hvars == <<reference_text, results, returned, h_out>>
mvars == <<m_ref, m_hyp, m_out>>
dvars == <<ffmpeg, out_dir, files, ydl_calls, dl_calls, d_out>>
vars == <<reference_text, results, returned, h_out, m_ref, m_hyp, m_out,
          ffmpeg, out_dir, files, ydl_calls, dl_calls, d_out>>

-----------------------------------------------------------------------------
(* Bounds *)

\* longest text handed to calculate_wer / calculate_cer
MaxLen == 3
\* most benchmark_function calls that return on one harness
MaxCalls == 3
\* longest transcribe_time an adapter reports
MaxDur == 3
\* most download_audio calls
MaxDownloads == 2
\* largest st_mtime
MaxMtime == 2

-----------------------------------------------------------------------------
(* Python values *)

None == [none |-> TRUE]
Some(x) == [none |-> FALSE, v |-> x]

\* bool(s) of a str: the empty string is falsy
Truthy(s) == s # <<>>

Chars == {"a", "b", " "}

TextsUpTo(n) == UNION {[1..k -> Chars] : k \in 0..n}

-----------------------------------------------------------------------------
(* jiwer, as calculate_wer and calculate_cer use it *)

\* str.strip()
RECURSIVE LStrip(_)
LStrip(s) == IF s # <<>> /\ Head(s) = " " THEN LStrip(Tail(s)) ELSE s

RECURSIVE RStrip(_)
RStrip(s) ==
    IF s # <<>> /\ s[Len(s)] = " " THEN RStrip(SubSeq(s, 1, Len(s) - 1)) ELSE s

Strip(s) == RStrip(LStrip(s))

\* the words of a sentence: split on blanks, empty strings dropped
RECURSIVE SplitWords(_, _, _)
SplitWords(s, cur, acc) ==
    IF s = <<>>
    THEN IF cur = <<>> THEN acc ELSE Append(acc, cur)
    ELSE IF Head(s) = " "
         THEN SplitWords(Tail(s), <<>>, IF cur = <<>> THEN acc ELSE Append(acc, cur))
         ELSE SplitWords(Tail(s), Append(cur, Head(s)), acc)

Words(s) == SplitWords(s, <<>>, <<>>)

\* the characters of a sentence, after Strip
CharTokens(s) == [i \in 1..Len(Strip(s)) |-> <<Strip(s)[i]>>]

Min2(a, b) == IF a <= b THEN a ELSE b

\* one row of the edit-distance table: prev is the row of the reference prefix
\* before token x, hyp the hypothesis tokens
RECURSIVE LevRow(_, _, _, _, _)
LevRow(prev, x, hyp, j, acc) ==
    IF j > Len(hyp)
    THEN acc
    ELSE LET cost == IF x = hyp[j] THEN 0 ELSE 1
             v == Min2(Min2(prev[j + 1] + 1, acc[j] + 1), prev[j] + cost)
         IN LevRow(prev, x, hyp, j + 1, Append(acc, v))

RECURSIVE LevRows(_, _, _, _)
LevRows(ref, hyp, i, prev) ==
    IF i > Len(ref)
    THEN prev[Len(hyp) + 1]
    ELSE LevRows(ref, hyp, i + 1, LevRow(prev, ref[i], hyp, 1, <<prev[1] + 1>>))

\* substitutions + deletions + insertions turning ref into hyp
EditDistance(ref, hyp) == LevRows(ref, hyp, 1, [j \in 1..(Len(hyp) + 1) |-> j - 1])

\* an error rate is the fraction num / den, or a ValueError: jiwer refuses a
\* reference that has no token, and takes a hypothesis that has none
Rate(refTokens, hypTokens) ==
    IF refTokens = <<>>
    THEN [exc |-> "ValueError", num |-> 0, den |-> 1]
    ELSE [exc |-> "None", num |-> EditDistance(refTokens, hypTokens),
          den |-> Len(refTokens)]

\* 1 - rate: what a word accuracy would be
Accuracy(r) == IF r.exc # "None" THEN r ELSE [r EXCEPT !.num = r.den - r.num]

calculate_wer_accuracy(reference, hypothesis) ==
    Accuracy(Rate(Words(reference), Words(hypothesis)))

calculate_wer(reference, hypothesis) == Rate(Words(reference), Words(hypothesis))

calculate_cer(reference, hypothesis) ==
    Rate(CharTokens(reference), CharTokens(hypothesis))

\* a / b < c / d, for positive b and d
RateLess(x, y) == x.num * y.den < y.num * x.den
RateLeq(x, y) == x.num * y.den <= y.num * x.den

-----------------------------------------------------------------------------
(* The transcription adapters, as the harness sees them *)

ModelNames == {"Faster-Whisper", "Whisper OpenAI"}

\* result["text"] is stripped by the adapter
Transcripts == {Strip(s) : s \in {<<"a", " ", "b">>, <<" ", "a">>}}

LoadTimes == {1}

\* the dict an adapter returns; segments and language are not read by the harness
AdapterResult(text, load_time, transcribe_time) ==
    [raised |-> FALSE, text |-> text, load_time |-> load_time,
     transcribe_time |-> transcribe_time,
     total_time |-> load_time + transcribe_time]

\* model loading or inference failed: the adapter has no try
AdapterRaise ==
    [raised |-> TRUE, text |-> <<>>, load_time |-> 0, transcribe_time |-> 0,
     total_time |-> 0]

AdapterOutcomes ==
    {AdapterRaise} \cup
    {AdapterResult(x, l, t) : x \in Transcripts, l \in LoadTimes, t \in 1..MaxDur}

\* what a caller may pass as reference_text
References == {None, Some(<<>>), Some(<<" ">>), Some(<<"a", " ", "b">>)}

-----------------------------------------------------------------------------
(* ASRBenchmark *)

\* the reference is used when it is given and not the empty string
HasReference(ref) == ~ref.none /\ Truthy(ref.v)

\* wer, cer = None, None; if self.reference_text: wer = ..., cer = ...
ErrorRatesWerOnly(ref, text) ==
    IF ~HasReference(ref)
    THEN [exc |-> "None", wer |-> None, cer |-> None]
    ELSE LET w == calculate_wer(ref.v, text)
         IN IF w.exc # "None"
            THEN [exc |-> w.exc, wer |-> None, cer |-> None]
            ELSE [exc |-> "None", wer |-> Some(w), cer |-> None]

ErrorRates(ref, text) ==
    IF ~HasReference(ref)
    THEN [exc |-> "None", wer |-> None, cer |-> None]
    ELSE LET w == calculate_wer(ref.v, text)
             c == calculate_cer(ref.v, text)
         IN IF w.exc # "None"
            THEN [exc |-> w.exc, wer |-> None, cer |-> None]
            ELSE IF c.exc # "None"
                 THEN [exc |-> c.exc, wer |-> None, cer |-> None]
                 ELSE [exc |-> "None", wer |-> Some(w), cer |-> Some(c)]

\* BenchmarkResult(...); the psutil samples (memory_used_mb, cpu_percent) are
\* readings of the environment that are only printed, and are left out
BenchmarkResult(model_name, result, rates) ==
    [model_name |-> model_name, load_time |-> result.load_time,
     transcribe_time |-> result.transcribe_time,
     total_time |-> result.total_time, transcription |-> result.text,
     wer |-> rates.wer, cer |-> rates.cer]

\* self.results.append(benchmark_result)
AppendResultFront(rs, rec) == <<rec>> \o rs

AppendResult(rs, rec) == Append(rs, rec)

\* benchmark_function from the adapter's return on
BenchmarkReturned(rs, ref, transcribe_func, model_name) ==
    LET rates == ErrorRates(ref, transcribe_func.text)
        rec == BenchmarkResult(model_name, transcribe_func, rates)
    IN IF rates.exc # "None"
       THEN [results |-> rs, exc |-> rates.exc, ret |-> None]
       ELSE [results |-> AppendResult(rs, rec), exc |-> "None", ret |-> Some(rec)]

\* a harness that catches the adapter's exception and records an empty result
BenchmarkEffectsSwallow(rs, ref, transcribe_func, model_name) ==
    IF transcribe_func.raised
    THEN BenchmarkReturned(rs, ref, AdapterResult(<<>>, 0, 0), model_name)
    ELSE BenchmarkReturned(rs, ref, transcribe_func, model_name)

\* the effects of benchmark_function: the new results, the exception that
\* reaches the caller ("None": none) and the value returned
BenchmarkEffects(rs, ref, transcribe_func, model_name) ==
    IF transcribe_func.raised
    THEN [results |-> rs, exc |-> "AdapterError", ret |-> None]
    ELSE BenchmarkReturned(rs, ref, transcribe_func, model_name)

NoReport == [insufficient |-> FALSE, listed |-> <<>>, fastest |-> 0, accurate |-> 0]

benchmark_function(transcribe_func, model_name) ==
    /\ Len(results) < MaxCalls
    /\ LET e == BenchmarkEffects(results, reference_text, transcribe_func, model_name)
       IN /\ results' = e.results
          /\ returned' = IF e.exc = "None"
                         THEN Append(returned, <<model_name, transcribe_func>>)
                         ELSE returned
          /\ h_out' = [op |-> "benchmark_function",
                       adapter |-> IF transcribe_func.raised THEN "raise" ELSE "return",
                       exc |-> e.exc, ret |-> e.ret, pre |-> results,
                       report |-> NoReport]
    /\ UNCHANGED <<reference_text, mvars, dvars>>

\* min(keys): the index of the first least key; Python's min keeps the earlier
\* item unless a later one is strictly less
RECURSIVE MinIndexLast(_, _, _)
MinIndexLast(keys, i, best) ==
    IF i > Len(keys)
    THEN best
    ELSE MinIndexLast(keys, i + 1, IF RateLeq(keys[i], keys[best]) THEN i ELSE best)

RECURSIVE MinIndex(_, _, _)
MinIndex(keys, i, best) ==
    IF i > Len(keys)
    THEN best
    ELSE MinIndex(keys, i + 1, IF RateLess(keys[i], keys[best]) THEN i ELSE best)

TimeKeys(rs) == [i \in 1..Len(rs) |-> [num |-> rs[i].total_time, den |-> 1]]

\* fastest = min(self.results, key=lambda x: x.total_time)
FastestLastTie(rs) == MinIndexLast(TimeKeys(rs), 2, 1)

Fastest(rs) == MinIndex(TimeKeys(rs), 2, 1)

\* if self.results[0].wer is not None:
AccuracyGuardAlways(rs) == TRUE

AccuracyGuard(rs) == ~rs[1].wer.none

\* min(self.results, key=lambda x: x.wer): comparing None with a float is a
\* TypeError
MostAccurate(rs) ==
    IF \E i \in 1..Len(rs) : rs[i].wer.none
    THEN [exc |-> "TypeError", index |-> 0]
    ELSE [exc |-> "None",
          index |-> MinIndex([i \in 1..Len(rs) |-> rs[i].wer.v], 2, 1)]

\* if len(self.results) < 2: print(...); return
InsufficientNone(rs) == Len(rs) < 1

Insufficient(rs) == Len(rs) < 2

\* what print_comparison prints, and the exception that leaves it
Comparison(rs) ==
    IF Insufficient(rs)
    THEN [exc |-> "None",
          report |-> [insufficient |-> TRUE, listed |-> <<>>, fastest |-> 0,
                      accurate |-> 0]]
    ELSE IF ~AccuracyGuard(rs)
         THEN [exc |-> "None",
               report |-> [insufficient |-> FALSE, listed |-> rs,
                           fastest |-> Fastest(rs), accurate |-> 0]]
         ELSE LET a == MostAccurate(rs)
              IN [exc |-> a.exc,
                  report |-> [insufficient |-> FALSE, listed |-> rs,
                              fastest |-> Fastest(rs), accurate |-> a.index]]

print_comparison ==
    /\ LET c == Comparison(results)
       IN h_out' = [op |-> "print_comparison", adapter |-> "-", exc |-> c.exc,
                    ret |-> None, pre |-> results, report |-> c.report]
    /\ UNCHANGED <<reference_text, results, returned, mvars, dvars>>

-----------------------------------------------------------------------------
(* calculate_wer and calculate_cer on their own *)

NoRate == [exc |-> "-", num |-> 0, den |-> 1]

Calculate ==
    /\ m_out.state = "called"
    /\ m_out' = [state |-> "done", wer |-> calculate_wer(m_ref, m_hyp),
                 cer |-> calculate_cer(m_ref, m_hyp)]
    /\ UNCHANGED <<m_ref, m_hyp, hvars, dvars>>

-----------------------------------------------------------------------------
(* download_audio *)

\* the names in out_dir: "t" is the title being downloaded, "o" and "p" are
\* files that were there before
FileName(stem, suffix) == [stem |-> stem, suffix |-> suffix]

Names ==
    {FileName("t", "webm"), FileName("t", "mp3"), FileName("t", "MP3"),
     FileName("o", "mp3"), FileName("p", "mp3")}

\* what ydl.prepare_filename(info) can name
PreparedNames == {n \in Names : n.stem = "t"}

Exts == {"mp3", "MP3"}

\* str.lower()
Lower(s) == IF s = "MP3" THEN "mp3" ELSE s

\* Path.with_suffix(f".{ext}")
WithSuffix(name, ext) == [name EXCEPT !.suffix = ext]

\* Path.exists()
Exists(fs, name) == name \in DOMAIN fs /\ fs[name] > 0

NoFiles == [n \in Names |-> 0]

\* pathlib.Path(out_dir).glob(f"*.{ext}"): the matching files, in the order
\* the directory lists them, which is any order
Glob(fs, ext) == {n \in Names : fs[n] > 0 /\ n.suffix = ext}

Listings(S) ==
    {f \in [1..Cardinality(S) -> S] : \A i, j \in 1..Cardinality(S) : f[i] = f[j] => i = j}

\* sorted(..., key=st_mtime) is stable: an item goes behind the items that do
\* not come after it
RECURSIVE InsertAsc(_, _, _)
InsertAsc(sorted, x, fs) ==
    IF sorted = <<>>
    THEN <<x>>
    ELSE IF fs[Head(sorted)] <= fs[x]
         THEN <<Head(sorted)>> \o InsertAsc(Tail(sorted), x, fs)
         ELSE <<x>> \o sorted

RECURSIVE InsertDesc(_, _, _)
InsertDesc(sorted, x, fs) ==
    IF sorted = <<>>
    THEN <<x>>
    ELSE IF fs[Head(sorted)] >= fs[x]
         THEN <<Head(sorted)>> \o InsertDesc(Tail(sorted), x, fs)
         ELSE <<x>> \o sorted

RECURSIVE SortAsc(_, _, _)
SortAsc(listing, fs, acc) ==
    IF listing = <<>>
    THEN acc
    ELSE SortAsc(Tail(listing), fs, InsertAsc(acc, Head(listing), fs))

RECURSIVE SortDesc(_, _, _)
SortDesc(listing, fs, acc) ==
    IF listing = <<>>
    THEN acc
    ELSE SortDesc(Tail(listing), fs, InsertDesc(acc, Head(listing), fs))

\* candidates = sorted(glob, key=lambda p: p.stat().st_mtime, reverse=True)
CandidatesOldestFirst(listing, fs) == SortAsc(listing, fs, <<>>)

Candidates(listing, fs) == SortDesc(listing, fs, <<>>)

\* the lines after extract_info: the path download_audio returns
Resolve(fs, temp_path, ext, listing) ==
    LET final_path == WithSuffix(temp_path, ext)
        candidates == Candidates(listing, fs)
    IN IF Exists(fs, final_path)
       THEN Some(final_path)
       ELSE IF Exists(fs, temp_path) /\ Lower(temp_path.suffix) = Lower(ext)
            THEN Some(temp_path)
            ELSE IF candidates # <<>> THEN Some(candidates[1]) ELSE None

\* what YoutubeDL does when invoked: it raises or returns, names the prepared
\* file, and may have written one file with some modification time
YdlOutcomes ==
    [raised : BOOLEAN, temp : PreparedNames,
     written : {None} \cup {Some(<<n, t>>) : n \in PreparedNames, t \in 1..MaxMtime}]

Written(fs, ydl) ==
    IF ydl.written.none THEN fs ELSE [fs EXCEPT ![ydl.written.v[1]] = ydl.written.v[2]]

\* except Exception as e: print(...); return None
OnDownloadErrorRaise == [exc |-> "DownloadError", ret |-> None]

OnDownloadError == [exc |-> "None", ret |-> None]

\* if shutil.which("ffmpeg") is None: raise FFmpegNotFoundError
FfmpegNeverMissing(has_ffmpeg) == FALSE

FfmpegMissing(has_ffmpeg) == ~has_ffmpeg

download_audio(ext, ydl) ==
    /\ dl_calls < MaxDownloads
    /\ dl_calls' = dl_calls + 1
    /\ UNCHANGED <<ffmpeg, hvars, mvars>>
    /\ IF FfmpegMissing(ffmpeg)
       THEN /\ d_out' = [exc |-> "FFmpegNotFoundError", ret |-> None, ext |-> ext,
                         ydl |-> "not invoked", temp |-> ydl.temp]
            /\ UNCHANGED <<out_dir, files, ydl_calls>>
       ELSE IF out_dir = "blocked"
            THEN \* mkdir(parents=True, exist_ok=True) is outside the try
                 /\ d_out' = [exc |-> "OSError", ret |-> None, ext |-> ext,
                              ydl |-> "not invoked", temp |-> ydl.temp]
                 /\ UNCHANGED <<out_dir, files, ydl_calls>>
            ELSE /\ out_dir' = "dir"
                 /\ ydl_calls' = ydl_calls + 1
                 /\ files' = Written(files, ydl)
                 /\ IF ydl.raised
                    THEN d_out' = [exc |-> OnDownloadError.exc,
                                   ret |-> OnDownloadError.ret, ext |-> ext,
                                   ydl |-> "raised", temp |-> ydl.temp]
                    ELSE \E listing \in Listings(Glob(Written(files, ydl), ext)) :
                            d_out' = [exc |-> "None",
                                      ret |-> Resolve(Written(files, ydl), ydl.temp,
                                                      ext, listing),
                                      ext |-> ext, ydl |-> "returned",
                                      temp |-> ydl.temp]

-----------------------------------------------------------------------------
(* Specifications *)

NoCall ==
    [op |-> "-", adapter |-> "-", exc |-> "None", ret |-> None, pre |-> <<>>,
     report |-> NoReport]

NoDownload ==
    [exc |-> "None", ret |-> None, ext |-> "-", ydl |-> "not invoked",
     temp |-> FileName("t", "webm")]

HarnessIdle ==
    /\ reference_text = None
    /\ results = <<>>
    /\ returned = <<>>
    /\ h_out = NoCall

MetricIdle ==
    /\ m_ref = <<>>
    /\ m_hyp = <<>>
    /\ m_out = [state |-> "idle", wer |-> NoRate, cer |-> NoRate]

DownloadIdle ==
    /\ ffmpeg = TRUE
    /\ out_dir = "absent"
    /\ files = NoFiles
    /\ ydl_calls = 0
    /\ dl_calls = 0
    /\ d_out = NoDownload

\* ASRBenchmark(audio_path, reference_text)
Init ==
    /\ reference_text \in References
    /\ results = <<>>
    /\ returned = <<>>
    /\ h_out = NoCall
    /\ MetricIdle
    /\ DownloadIdle

Next ==
    \/ \E f \in AdapterOutcomes, name \in ModelNames : benchmark_function(f, name)
    \/ print_comparison

Spec == Init /\ [][Next]_vars

\* a call of calculate_wer and calculate_cer on any two texts
InitMetric ==
    /\ m_ref \in TextsUpTo(MaxLen)
    /\ m_hyp \in TextsUpTo(MaxLen)
    /\ m_out = [state |-> "called", wer |-> NoRate, cer |-> NoRate]
    /\ HarnessIdle
    /\ DownloadIdle

NextMetric == Calculate

SpecMetric == InitMetric /\ [][NextMetric]_vars

\* download_audio on a machine with or without ffmpeg, and an out_dir that is
\* absent, cannot be created, or is a directory holding any files
InitDownload ==
    /\ ffmpeg \in BOOLEAN
    /\ out_dir \in {"absent", "dir", "blocked"}
    /\ files \in [Names -> 0..MaxMtime]
    /\ out_dir # "dir" => files = NoFiles
    /\ ydl_calls = 0
    /\ dl_calls = 0
    /\ d_out = NoDownload
    /\ HarnessIdle
    /\ MetricIdle

NextDownload ==
    \E ext \in Exts, ydl \in YdlOutcomes : download_audio(ext, ydl)

SpecDownload == InitDownload /\ [][NextDownload]_vars

-----------------------------------------------------------------------------
(* Claims about ASRBenchmark, under Spec *)

BenchmarkCalled == h_out.op = "benchmark_function"
ComparisonCalled == h_out.op = "print_comparison"

\* C1: when the adapter raises inside benchmark_function, its exception
\* reaches the caller, nothing is returned, and self.results is the list it
\* was before the call.
C1_AdapterRaisePropagates ==
    (BenchmarkCalled /\ h_out.adapter = "raise") =>
        /\ h_out.exc = "AdapterError"
        /\ h_out.ret = None
        /\ results = h_out.pre

C1_Witness ==
    /\ BenchmarkCalled
    /\ h_out.adapter = "raise"
    /\ Len(results) >= 2

\* C2: self.results holds one record per call that returned, in call order;
\* the i-th record carries the i-th such call's model_name and adapter result;
\* a call that returns appends its record at the end and returns it; no call
\* changes the records that were there.
C2_OneRecordPerReturn ==
    /\ Len(results) = Len(returned)
    /\ \A i \in 1..Len(results) :
          /\ results[i].model_name = returned[i][1]
          /\ results[i].transcription = returned[i][2].text
          /\ results[i].load_time = returned[i][2].load_time
          /\ results[i].transcribe_time = returned[i][2].transcribe_time
          /\ results[i].total_time = returned[i][2].total_time
    /\ (BenchmarkCalled /\ h_out.exc = "None") =>
          /\ ~h_out.ret.none
          /\ results = Append(h_out.pre, h_out.ret.v)
    /\ (BenchmarkCalled /\ h_out.exc # "None") => results = h_out.pre
    /\ ComparisonCalled => results = h_out.pre

C2_Witness ==
    /\ BenchmarkCalled
    /\ h_out.exc = "None"
    /\ Len(results) = 3
    /\ results[1].model_name # results[2].model_name
    /\ results[2] # results[3]

\* C6: print_comparison on fewer than 2 records does not raise, prints the
\* insufficient-data message, no per-record statistics, no fastest and no
\* most accurate record, and leaves self.results alone.
C6_TooFewRecords ==
    (ComparisonCalled /\ Len(h_out.pre) < 2) =>
        /\ h_out.exc = "None"
        /\ h_out.report.insufficient
        /\ h_out.report.listed = <<>>
        /\ h_out.report.fastest = 0
        /\ h_out.report.accurate = 0
        /\ results = h_out.pre

C6_Witness ==
    /\ ComparisonCalled
    /\ Len(results) = 1
    /\ h_out.report.insufficient

\* C7: with 2 or more records, the record reported as fastest has a
\* total_time no greater than any record's, and is the earliest of those that
\* share the least total_time.
C7_FastestIsFirstMinimum ==
    (ComparisonCalled /\ Len(results) >= 2) =>
        LET f == h_out.report.fastest
        IN /\ f \in 1..Len(results)
           /\ \A j \in 1..Len(results) : results[f].total_time <= results[j].total_time
           /\ \A j \in 1..(f - 1) : results[j].total_time > results[f].total_time

\* the shape of [5.0, 2.0, 8.0]: the second of three records is the fastest
C7_Witness ==
    /\ ComparisonCalled
    /\ Len(results) = 3
    /\ results[2].total_time < results[1].total_time
    /\ results[1].total_time < results[3].total_time
    /\ h_out.report.fastest = 2

HasRates(rs) == \A i \in 1..Len(rs) : ~rs[i].wer.none

\* C8: with 2 or more records, print_comparison does not fail, reports a most
\* accurate record exactly when the records carry error rates, and the one
\* reported has a word error rate no greater than any record's.
C8_MostAccurate ==
    (ComparisonCalled /\ Len(results) >= 2) =>
        LET a == h_out.report.accurate
        IN /\ h_out.exc = "None"
           /\ a \in 0..Len(results)
           /\ (a # 0) <=> HasRates(results)
           /\ a # 0 => \A j \in 1..Len(results) :
                          results[a].wer.v.num * results[j].wer.v.den
                              <= results[j].wer.v.num * results[a].wer.v.den

C8_Witness ==
    /\ ComparisonCalled
    /\ Len(results) >= 2
    /\ h_out.report.accurate = 2
    /\ results[2].wer.v.num = 0
    /\ results[1].wer.v.num > 0

BothRates(rec) == ~rec.wer.none /\ ~rec.cer.none
NoRates(rec) == rec.wer.none /\ rec.cer.none

\* C9 as stated: every record has wer and cer if a reference transcript was
\* given to the constructor (reference_text is not None), and neither if none
\* was given.
C9_AsStated ==
    \A i \in 1..Len(results) :
        IF ~reference_text.none THEN BothRates(results[i]) ELSE NoRates(results[i])

\* C9, amended: every record has wer and cer if a non-empty reference
\* transcript was given to the constructor, and neither if none, or the empty
\* string, was given; so the records of one harness agree on having them.
C9_RatesFollowReference ==
    /\ \A i \in 1..Len(results) :
          IF ~reference_text.none /\ reference_text.v # <<>>
          THEN BothRates(results[i])
          ELSE NoRates(results[i])
    /\ \A i, j \in 1..Len(results) : BothRates(results[i]) <=> BothRates(results[j])

C9_Witness ==
    /\ ~reference_text.none
    /\ reference_text.v # <<>>
    /\ Len(results) >= 2
    /\ BothRates(results[1])
    /\ results[1].wer # results[2].wer

-----------------------------------------------------------------------------
(* Claims about calculate_wer and calculate_cer, under SpecMetric *)

IsRate(r) == r.exc = "None" /\ r.num >= 0 /\ r.den > 0

\* C10 as stated: for a non-empty reference and a non-empty hypothesis, both
\* functions return a non-negative value, which is 0 when the hypothesis is the
\* reference.
C10_AsStated ==
    (m_out.state = "done" /\ m_ref # <<>> /\ m_hyp # <<>>) =>
        /\ IsRate(m_out.wer)
        /\ IsRate(m_out.cer)
        /\ m_hyp = m_ref => (m_out.wer.num = 0 /\ m_out.cer.num = 0)

\* C10, amended: for a reference that has a character other than a blank and a
\* non-empty hypothesis, both functions return a non-negative value, which is 0
\* when the hypothesis is the reference.
C10_RatesNonNegative ==
    (m_out.state = "done" /\ (\E i \in 1..Len(m_ref) : m_ref[i] # " ") /\ m_hyp # <<>>) =>
        /\ IsRate(m_out.wer)
        /\ IsRate(m_out.cer)
        /\ m_hyp = m_ref => (m_out.wer.num = 0 /\ m_out.cer.num = 0)

C10_Witness ==
    /\ m_out.state = "done"
    /\ m_hyp = m_ref
    /\ m_ref = <<"a", " ", "b">>
    /\ m_out.wer.num = 0
    /\ m_out.wer.den = 2
    /\ m_out.cer.den = 3

-----------------------------------------------------------------------------
(* Claims about download_audio, under SpecDownload *)

\* C3: a download_audio call made while ffmpeg is not on PATH raises
\* FFmpegNotFoundError, returns nothing, and has no effect: out_dir is not
\* created, no file changes and the downloader is not invoked.
C3_FfmpegCheckedFirst ==
    [][(~ffmpeg /\ dl_calls' # dl_calls) =>
          /\ d_out'.exc = "FFmpegNotFoundError"
          /\ d_out'.ret = None
          /\ d_out'.ydl = "not invoked"
          /\ UNCHANGED <<out_dir, files, ydl_calls>>]_vars

C3_Witness ==
    /\ ~ffmpeg
    /\ dl_calls > 0
    /\ d_out.exc = "FFmpegNotFoundError"
    /\ out_dir = "absent"
    /\ ydl_calls = 0

\* C4 as stated: a downloader error gives None, and no failure of a
\* download_audio call reaches the caller as an exception.
C4_AsStated ==
    /\ d_out.ydl = "raised" => (d_out.exc = "None" /\ d_out.ret = None)
    /\ d_out.exc = "None"

\* C4, amended: an error of the downloader, and any error after it was
\* invoked, gives None; the failures that reach the caller as exceptions are
\* the two before the downloader is invoked: FFmpegNotFoundError when ffmpeg
\* is not on PATH, and the OSError of creating out_dir.
C4_DownloadErrorsGiveNone ==
    /\ d_out.ydl = "raised" => (d_out.exc = "None" /\ d_out.ret = None)
    /\ d_out.ydl # "not invoked" => d_out.exc = "None"
    /\ d_out.exc \in {"None", "FFmpegNotFoundError", "OSError"}
    /\ d_out.exc = "FFmpegNotFoundError" => ~ffmpeg
    /\ d_out.exc = "OSError" => (ffmpeg /\ out_dir = "blocked")

C4_Witness ==
    /\ d_out.ydl = "raised"
    /\ d_out.ret = None
    /\ d_out.exc = "None"
    /\ ydl_calls > 0

FinalPath == WithSuffix(d_out.temp, d_out.ext)
PreparedQualifies ==
    files[d_out.temp] > 0 /\ Lower(d_out.temp.suffix) = Lower(d_out.ext)
Matching == {n \in Names : files[n] > 0 /\ n.suffix = d_out.ext}
Newest(S, n) == n \in S /\ \A o \in S : files[o] <= files[n]

\* the order of resolution: the expected name, else the prepared name when its
\* suffix is the target ext in any case, else the newest *.ext, else None
PriorityOrder ==
    /\ files[FinalPath] > 0 => d_out.ret = Some(FinalPath)
    /\ (files[FinalPath] = 0 /\ PreparedQualifies) => d_out.ret = Some(d_out.temp)
    /\ (files[FinalPath] = 0 /\ ~PreparedQualifies /\ Matching # {}) =>
          (~d_out.ret.none /\ Newest(Matching, d_out.ret.v))
    /\ (files[FinalPath] = 0 /\ ~PreparedQualifies /\ Matching = {}) =>
          d_out.ret = None
    /\ ~d_out.ret.none => files[d_out.ret.v] > 0

\* C5 as stated: after a download without error the file is resolved in the
\* order above, and whenever the expected file is absent but a file with the
\* target extension exists, the path returned is one of greatest modification
\* time among those files.
C5_AsStated ==
    d_out.ydl = "returned" =>
        /\ PriorityOrder
        /\ (files[FinalPath] = 0 /\ Matching # {}) =>
              (~d_out.ret.none /\ \A o \in Matching : files[o] <= files[d_out.ret.v])

\* C5, amended: after a download without error the file is resolved in the
\* order above; when the expected file is absent, the prepared name does not
\* qualify, and a file with the target extension exists, the path returned is
\* the newest of those files; a path returned names a file that exists.
C5_ResolutionOrder == d_out.ydl = "returned" => PriorityOrder

C5_Witness ==
    /\ d_out.ydl = "returned"
    /\ files[FinalPath] = 0
    /\ ~PreparedQualifies
    /\ Cardinality(Matching) = 2
    /\ \E n \in Matching : files[n] < files[d_out.ret.v]

====
